---- MODULE Spec2Model ----
(***************************************************************************)
(* HashMap<KeyT, ValT> of src/hashmap.h: a separate-chaining hash table    *)
(* with a bucket array of chain heads, nodes on the heap, growth by        *)
(* doubling, deep copies and a begin/next cursor.                          *)
(*                                                                         *)
(* KeyT and ValT are instantiated with int.  Nodes live in one heap shared *)
(* by all tables, so that aliasing between a table and its copy is a fact  *)
(* of the model and not an assumption.                                     *)
(***************************************************************************)
EXTENDS Integers, FiniteSets, Sequences, TLC

\* ---------------------------------------------------------------- bounds
MaxKey == 3        \* keys are 0..MaxKey; the calls of Spec pass every key
MaxIterKey == 2    \* keys the calls of SpecIter and SpecGrow pass
MaxCopyKey == 1    \* keys of the two-table specification are 0..MaxCopyKey
MaxVal == 2        \* values are 1..MaxVal
MaxCopyVal == 1    \* values the calls of the two-table specification pass
MaxNodes == 4      \* size of the heap: node addresses are 1..MaxNodes
MaxCap == 4        \* largest capacity given to a constructor or to rehash
MaxCopyCap == 2    \* the same, in the two-table specification
MaxStaleIdx == 10  \* largest index read from a curr_idx that was never set

Keys == 0..MaxKey
IterKeys == 0..MaxIterKey
CopyKeys == 0..MaxCopyKey
Vals == 1..MaxVal
CopyVals == 1..MaxCopyVal
NodeIds == 1..MaxNodes
Tables == {1, 2}

\* ------------------------------------------------------- special values
nullptr == 0           \* the null node pointer
Wild == 0 - 1          \* an indeterminate (never assigned) pointer or index
NoKey == 0 - 1         \* no key: a free heap cell, a reference not set
NoVal == 0 - 1         \* no value: an absent key, a reference not set
Garbage == 0 - 2       \* a key or value read from memory that holds no node
KeyNotFound == 0 - 1   \* the out_of_range exception of at and erase

\* struct ChainNode; FreeNode is a heap cell that is not allocated.
ChainNode(key, value, next) == [key |-> key, value |-> value, next |-> next]
FreeNode == [key |-> NoKey, value |-> NoVal, next |-> nullptr]

\* std::hash<int> is the identity on the keys used here.
Hash(key) == key

\* The fields of one HashMap object.
HashMapObj(data, sz, capacity, curr, curr_idx) ==
    [data |-> data, sz |-> sz, capacity |-> capacity,
     curr |-> curr, curr_idx |-> curr_idx]

\* new ChainNode*[capacity] with every bucket set to nullptr.
NewBuckets(capacity) == [i \in 0..(capacity - 1) |-> nullptr]

\* A table that has not been constructed (or has been destroyed).
NoTable == HashMapObj(NewBuckets(0), 0, 0, Wild, Wild)

\* A table of a process that has ended with a memory fault: nothing can be
\* called on it and nothing can be constructed in its place.
Crashed == HashMapObj(NewBuckets(0), 0, 0 - 1, Wild, Wild)

VARIABLES
    heap,   \* [NodeIds -> ChainNode], FreeNode where nothing is allocated
    tbl,    \* [Tables -> HashMap object], NoTable where none is constructed
    abs     \* [Tables -> [Keys -> Vals \cup {NoVal}]]: the abstract map

vars == <<heap, tbl, abs>>


\* ------------------------------------------------------------ the heap
IsFree(h, n) == h[n] = FreeNode
NumFree(h) == Cardinality({n \in NodeIds : IsFree(h, n)})

\* new ChainNode: the addresses the allocator may return.  Which free
\* address it returns is unspecified; a released address may be used again
\* at once, later or never.
Alloc(h) == {n \in NodeIds : IsFree(h, n)}

\* The addresses n successive calls of new ChainNode may return, with no
\* delete between them: n distinct free addresses in any order.
AllocSeqs(h, n) ==
    {fresh \in [1..n -> Alloc(h)] :
        \A i \in 1..n : \A j \in 1..n : i # j => fresh[i] # fresh[j]}

\* delete node
Free(h, n) == [h EXCEPT ![n] = FreeNode]

\* The nodes of the chain that starts at current, in chain order.
RECURSIVE Chain(_, _)
Chain(h, current) ==
    IF current = nullptr \/ current = Wild THEN <<>>
    ELSE <<current>> \o Chain(h, h[current].next)

\* ------------------------------------------------- lookups (const methods)
\* Mutant of ChainSearch: only the head of the chain is compared.
ChainSearchHeadOnly(h, current, key) ==
    IF current = nullptr THEN nullptr
    ELSE IF h[current].key = key THEN current
    ELSE nullptr

\* while (current != nullptr) { if (current->key == key) ...; current = current->next; }
\* The node that holds key, or nullptr when the chain has none.
RECURSIVE ChainSearch(_, _, _)
ChainSearch(h, current, key) ==
    IF current = nullptr THEN nullptr
    ELSE IF h[current].key = key THEN current
    ELSE ChainSearch(h, h[current].next, key)

\* size_t index = std::hash<KeyT>{}(key) % capacity;
BucketIndex(hm, key) == Hash(key) % hm.capacity

\* empty() and size()
empty(hm) == hm.sz = 0
size(hm) == hm.sz

\* contains(key)
contains(h, hm, key) ==
    LET index == BucketIndex(hm, key)
        current == hm.data[index]
    IN  ChainSearch(h, current, key) # nullptr

\* atRef that returns the head of the chain that holds the key, not the
\* node that holds it.
atRefHead(h, hm, key) ==
    LET index == BucketIndex(hm, key)
        current == hm.data[index]
    IN  IF ChainSearch(h, current, key) = nullptr THEN nullptr ELSE current

\* at(key): the node whose value the returned reference names, or nullptr
\* when at throws out_of_range.
atRef(h, hm, key) ==
    LET index == BucketIndex(hm, key)
        current == hm.data[index]
    IN  ChainSearch(h, current, key)

\* at(key) read as a value: the referenced value, or KeyNotFound.
at(h, hm, key) ==
    LET node == atRef(h, hm, key)
    IN  IF node = nullptr THEN KeyNotFound ELSE h[node].value

\* ------------------------------------------------------------- rehash
\* Mutant of RehashChain: the successor is read after the node is relinked.
RECURSIVE RehashChainLost(_, _, _, _)
RehashChainLost(h, d, current, new_capacity) ==
    IF current = nullptr THEN [heap |-> h, data |-> d]
    ELSE LET new_index == Hash(h[current].key) % new_capacity
             h2 == [h EXCEPT ![current].next = d[new_index]]
             d2 == [d EXCEPT ![new_index] = current]
         IN  RehashChainLost(h2, d2, h2[current].next, new_capacity)

\* The inner loop of rehash: relink every node of one old chain at the head
\* of its new bucket.  The result is the heap and the new bucket array.
RECURSIVE RehashChain(_, _, _, _)
RehashChain(h, d, current, new_capacity) ==
    IF current = nullptr THEN [heap |-> h, data |-> d]
    ELSE LET next == h[current].next
             new_index == Hash(h[current].key) % new_capacity
             h2 == [h EXCEPT ![current].next = d[new_index]]
             d2 == [d EXCEPT ![new_index] = current]
         IN  RehashChain(h2, d2, next, new_capacity)

\* The outer loop of rehash: old buckets i, i+1, ..., old_capacity-1.
RECURSIVE RehashBuckets(_, _, _, _, _, _)
RehashBuckets(h, d, old_data, i, old_capacity, new_capacity) ==
    IF i >= old_capacity THEN [heap |-> h, data |-> d]
    ELSE LET r == RehashChain(h, d, old_data[i], new_capacity)
         IN  RehashBuckets(r.heap, r.data, old_data, i + 1, old_capacity,
                           new_capacity)

\* rehash that resizes the bucket array and keeps every chain under its old
\* bucket index, without relinking the nodes.
rehashNoRelink(h, hm, new_capacity) ==
    [heap |-> h,
     hm |-> [hm EXCEPT
                !.data = [i \in 0..(new_capacity - 1) |->
                              IF i < hm.capacity THEN hm.data[i]
                              ELSE nullptr],
                !.capacity = new_capacity]]

\* rehash(new_capacity), new_capacity > 0.
rehash(h, hm, new_capacity) ==
    LET old_data == hm.data
        old_capacity == hm.capacity
        r == RehashBuckets(h, NewBuckets(new_capacity), old_data, 0,
                           old_capacity, new_capacity)
    IN  [heap |-> r.heap,
         hm |-> [hm EXCEPT !.data = r.data, !.capacity = new_capacity]]

\* ------------------------------------------------------------- insert
\* LoadFactorExceeded with a threshold of 2.0 for 1.5.
LoadFactorAboveTwo(sz, capacity) == sz > 2 * capacity

\* Mutant of LoadFactorExceeded: the comparison is >= 1.5.
LoadFactorReached(sz, capacity) == 2 * sz >= 3 * capacity

\* load_factor > 1.5, with load_factor = double(sz) / double(capacity); the
\* division is exact for the sizes of the model, so this is 2*sz > 3*capacity.
LoadFactorExceeded(sz, capacity) == 2 * sz > 3 * capacity

\* Mutant of insert: an existing mapping is overwritten.
insertOverwrite(h, hm, key, value, new_node) ==
    LET index == BucketIndex(hm, key)
        found == ChainSearch(h, hm.data[index], key)
    IN  IF found # nullptr
        THEN [heap |-> [h EXCEPT ![found].value = value], hm |-> hm]
        ELSE LET h1 == [h EXCEPT ![new_node] =
                                ChainNode(key, value, hm.data[index])]
                 hm1 == [hm EXCEPT !.data[index] = new_node,
                                   !.sz = hm.sz + 1]
             IN  IF LoadFactorExceeded(hm1.sz, hm1.capacity)
                 THEN rehash(h1, hm1, hm1.capacity * 2)
                 ELSE [heap |-> h1, hm |-> hm1]

\* insert with one defect: "nosearch" skips the search of the chain and
\* always links a new node; "growodd" rehashes to 2 * capacity + 1.
insertBug(bug, h, hm, key, value, new_node) ==
    LET index == BucketIndex(hm, key)
        current == hm.data[index]
    IN  IF bug # "nosearch" /\ ChainSearch(h, current, key) # nullptr
        THEN [heap |-> h, hm |-> hm]
        ELSE LET h1 == [h EXCEPT ![new_node] =
                                ChainNode(key, value, hm.data[index])]
                 hm1 == [hm EXCEPT !.data[index] = new_node,
                                   !.sz = hm.sz + 1]
             IN  IF LoadFactorExceeded(hm1.sz, hm1.capacity)
                 THEN rehash(h1, hm1, IF bug = "growodd"
                                      THEN hm1.capacity * 2 + 1
                                      ELSE IF bug = "growbyone"
                                      THEN hm1.capacity + 1
                                      ELSE hm1.capacity * 2)
                 ELSE [heap |-> h1, hm |-> hm1]

insertNoSearch(h, hm, key, value, new_node) ==
    insertBug("nosearch", h, hm, key, value, new_node)

insertGrowOdd(h, hm, key, value, new_node) ==
    insertBug("growodd", h, hm, key, value, new_node)

\* insert that grows by one bucket: it agrees with insert on a one-bucket
\* table and differs from capacity 2 on.
insertGrowByOne(h, hm, key, value, new_node) ==
    insertBug("growbyone", h, hm, key, value, new_node)

\* insert(key, value); new_node is the address new ChainNode returns when
\* the key is absent (it is not called when the key is present).
insert(h, hm, key, value, new_node) ==
    LET index == BucketIndex(hm, key)
        current == hm.data[index]
    IN  IF ChainSearch(h, current, key) # nullptr
        THEN [heap |-> h, hm |-> hm]
        ELSE LET h1 == [h EXCEPT ![new_node] =
                                ChainNode(key, value, hm.data[index])]
                 hm1 == [hm EXCEPT !.data[index] = new_node,
                                   !.sz = hm.sz + 1]
             IN  IF LoadFactorExceeded(hm1.sz, hm1.capacity)
                 THEN rehash(h1, hm1, hm1.capacity * 2)
                 ELSE [heap |-> h1, hm |-> hm1]

\* Every way a call of insert(key, value) can end: one for each address new
\* may return.  With no free address only the insert of a present key,
\* which calls no new, is defined.
insertOutcomes(h, hm, key, value) ==
    {insert(h, hm, key, value, new_node) :
        new_node \in IF Alloc(h) = {} THEN {nullptr} ELSE Alloc(h)}

\* -------------------------------------------------------------- clear
\* The inner loop of clear: delete every node of one chain.
RECURSIVE ClearChain(_, _)
ClearChain(h, current) ==
    IF current = nullptr THEN h
    ELSE LET to_delete == current
             next == h[current].next
         IN  ClearChain(Free(h, to_delete), next)

\* ClearBuckets without "data[i] = nullptr": every node is deleted and the
\* heads keep pointing at them.
RECURSIVE ClearBucketsKeepHeads(_, _, _, _)
ClearBucketsKeepHeads(h, d, i, capacity) ==
    IF i >= capacity THEN [heap |-> h, data |-> d]
    ELSE ClearBucketsKeepHeads(ClearChain(h, d[i]), d, i + 1, capacity)

\* The outer loop of clear: buckets i, i+1, ..., capacity-1.
RECURSIVE ClearBuckets(_, _, _, _)
ClearBuckets(h, d, i, capacity) ==
    IF i >= capacity THEN [heap |-> h, data |-> d]
    ELSE ClearBuckets(ClearChain(h, d[i]), [d EXCEPT ![i] = nullptr],
                      i + 1, capacity)

\* clear()
clear(h, hm) ==
    LET r == ClearBuckets(h, hm.data, 0, hm.capacity)
    IN  [heap |-> r.heap, hm |-> [hm EXCEPT !.data = r.data, !.sz = 0]]

\* -------------------------------------------------------------- erase
\* Where the erased node sat in its chain.
ChainPos(h, current, prev) ==
    IF prev = nullptr
    THEN (IF h[current].next = nullptr THEN "only" ELSE "head")
    ELSE (IF h[current].next = nullptr THEN "tail" ELSE "middle")

\* Mutants of EraseWalk.  "nodec": sz is not decremented.  "headlink": the
\* node is always unlinked through the bucket head.  "decfirst": sz is
\* decremented before the key is found.  "leak": the node is unlinked and
\* not deleted.
RECURSIVE EraseWalkBug(_, _, _, _, _, _, _)
EraseWalkBug(bug, h, hm, index, current, prev, key) ==
    IF current = nullptr
    THEN [heap |-> h,
          hm |-> IF bug = "decfirst" THEN [hm EXCEPT !.sz = hm.sz - 1]
                 ELSE hm,
          ret |-> KeyNotFound, pos |-> "none"]
    ELSE IF h[current].key = key
    THEN LET val == h[current].value
             viaHead == prev = nullptr \/ bug = "headlink"
             hm1 == IF viaHead
                    THEN [hm EXCEPT !.data[index] = h[current].next]
                    ELSE hm
             h1 == IF viaHead
                   THEN h
                   ELSE [h EXCEPT ![prev].next = h[current].next]
         IN  [heap |-> IF bug = "leak" THEN h1 ELSE Free(h1, current),
              hm |-> IF bug = "nodec" THEN hm1
                     ELSE [hm1 EXCEPT !.sz = hm.sz - 1],
              ret |-> val,
              pos |-> ChainPos(h, current, prev)]
    ELSE EraseWalkBug(bug, h, hm, index, h[current].next, current, key)

EraseWalkNoDec(h, hm, index, current, prev, key) ==
    EraseWalkBug("nodec", h, hm, index, current, prev, key)

EraseWalkHeadLink(h, hm, index, current, prev, key) ==
    EraseWalkBug("headlink", h, hm, index, current, prev, key)

EraseWalkDecFirst(h, hm, index, current, prev, key) ==
    EraseWalkBug("decfirst", h, hm, index, current, prev, key)

EraseWalkLeak(h, hm, index, current, prev, key) ==
    EraseWalkBug("leak", h, hm, index, current, prev, key)

\* The loop of erase.  ret is the returned value, or KeyNotFound.
RECURSIVE EraseWalk(_, _, _, _, _, _)
EraseWalk(h, hm, index, current, prev, key) ==
    IF current = nullptr
    THEN [heap |-> h, hm |-> hm, ret |-> KeyNotFound, pos |-> "none"]
    ELSE IF h[current].key = key
    THEN LET val == h[current].value
             hm1 == IF prev = nullptr
                    THEN [hm EXCEPT !.data[index] = h[current].next]
                    ELSE hm
             h1 == IF prev = nullptr
                   THEN h
                   ELSE [h EXCEPT ![prev].next = h[current].next]
         IN  [heap |-> Free(h1, current),
              hm |-> [hm1 EXCEPT !.sz = hm.sz - 1],
              ret |-> val,
              pos |-> ChainPos(h, current, prev)]
    ELSE EraseWalk(h, hm, index, h[current].next, current, key)

\* erase(key)
erase(h, hm, key) ==
    LET index == BucketIndex(hm, key)
        current == hm.data[index]
        prev == nullptr
    IN  EraseWalk(h, hm, index, current, prev, key)

\* --------------------------------------------- copies and assignment
\* The nodes of table hm, bucket by bucket, each chain in chain order.
RECURSIVE NodesFrom(_, _, _)
NodesFrom(h, hm, i) ==
    IF i >= hm.capacity THEN <<>>
    ELSE Chain(h, hm.data[i]) \o NodesFrom(h, hm, i + 1)

Nodes(h, hm) == NodesFrom(h, hm, 0)

\* Mutant of CopyChain: the copy's bucket is pointed at the source's chain
\* and no node is made (a shallow copy).
CopyChainShallow(h, T, this, i, current, ptr, fresh) ==
    [heap |-> h, tbl |-> [T EXCEPT ![this].data[i] = current],
     fresh |-> fresh]

\* Mutant of CopyChain: only the head of each chain is duplicated.
CopyChainHeadOnly(h, T, this, i, current, ptr, fresh) ==
    IF current = nullptr THEN [heap |-> h, tbl |-> T, fresh |-> fresh]
    ELSE LET made == Head(fresh)
         IN  [heap |-> [h EXCEPT ![made] = ChainNode(h[current].key,
                                                     h[current].value,
                                                     nullptr)],
              tbl |-> [T EXCEPT ![this].data[i] = made],
              fresh |-> Tail(fresh)]

\* CopyChain that links every duplicate at the head of bucket i, as rehash
\* does: the copy's chain is the source's chain reversed.
RECURSIVE CopyChainPrepend(_, _, _, _, _, _, _)
CopyChainPrepend(h, T, this, i, current, ptr, fresh) ==
    IF current = nullptr THEN [heap |-> h, tbl |-> T, fresh |-> fresh]
    ELSE LET made == Head(fresh)
             h1 == [h EXCEPT ![made] = ChainNode(h[current].key,
                                                 h[current].value,
                                                 T[this].data[i])]
             T2 == [T EXCEPT ![this].data[i] = made]
         IN  CopyChainPrepend(h1, T2, this, i, h1[current].next, made,
                              Tail(fresh))

\* The inner loop of a deep copy: duplicate the chain that starts at current
\* behind ptr, which is the bucket slot data[i] of table this (ptr = nullptr)
\* or the next field of the node made last (ptr = that node).  T is the
\* function from tables to objects, so that this and other may be one object.
\* fresh is the sequence of addresses the calls of new ChainNode return, in
\* call order; the result carries the addresses not used yet.
RECURSIVE CopyChain(_, _, _, _, _, _, _)
CopyChain(h, T, this, i, current, ptr, fresh) ==
    IF current = nullptr THEN [heap |-> h, tbl |-> T, fresh |-> fresh]
    ELSE LET made == Head(fresh)
             h1 == [h EXCEPT ![made] = ChainNode(h[current].key,
                                                 h[current].value, nullptr)]
             h2 == IF ptr = nullptr THEN h1
                   ELSE [h1 EXCEPT ![ptr].next = made]
             T2 == IF ptr = nullptr THEN [T EXCEPT ![this].data[i] = made]
                   ELSE T
         IN  CopyChain(h2, T2, this, i, h2[current].next, made, Tail(fresh))

\* The outer loop of a deep copy: buckets i, i+1, ..., capacity-1 of other.
RECURSIVE CopyBuckets(_, _, _, _, _, _)
CopyBuckets(h, T, this, other, i, fresh) ==
    IF i >= T[this].capacity THEN [heap |-> h, tbl |-> T]
    ELSE LET r == CopyChain(h, T, this, i, T[other].data[i], nullptr, fresh)
         IN  CopyBuckets(r.heap, r.tbl, this, other, i + 1, r.fresh)

\* HashMap(const HashMap& other), constructing table this.  The cursor
\* fields are not initialized.
copy_construct(h, T, this, other, fresh) ==
    LET T1 == [T EXCEPT ![this] =
                  HashMapObj(NewBuckets(T[other].capacity), T[other].sz,
                             T[other].capacity, Wild, Wild)]
    IN  CopyBuckets(h, T1, this, other, 0, fresh)

\* Every way HashMap this(other) can end: one for each sequence of
\* addresses new may return for the nodes of other.
copy_constructOutcomes(h, T, this, other) ==
    {copy_construct(h, T, this, other, fresh) :
        fresh \in AllocSeqs(h, Len(Nodes(h, T[other])))}

\* Mutant of operator_assign: no test for self-assignment.
operator_assign_unguarded(h, T, this, other, fresh) ==
    LET c == clear(h, T[this])
        T1 == [T EXCEPT ![this] = c.hm]
        T2 == [T1 EXCEPT ![this].capacity = T1[other].capacity]
        T3 == [T2 EXCEPT ![this].sz = T2[other].sz]
        T4 == [T3 EXCEPT ![this].data = NewBuckets(T3[this].capacity)]
    IN  CopyBuckets(c.heap, T4, this, other, 0, fresh)

\* operator=(const HashMap& other) on table this.  Every read of other is a
\* read of the object as it is at that point of the call.
operator_assign(h, T, this, other, fresh) ==
    IF this = other THEN [heap |-> h, tbl |-> T]
    ELSE LET c == clear(h, T[this])
             T1 == [T EXCEPT ![this] = c.hm]
             T2 == [T1 EXCEPT ![this].capacity = T1[other].capacity]
             T3 == [T2 EXCEPT ![this].sz = T2[other].sz]
             T4 == [T3 EXCEPT ![this].data = NewBuckets(T3[this].capacity)]
         IN  CopyBuckets(c.heap, T4, this, other, 0, fresh)

\* Every way this = other can end.  The nodes of this are released before
\* the first new, so the copy may take their addresses; a self-assignment
\* calls no new.
operator_assignOutcomes(h, T, this, other) ==
    IF this = other THEN {operator_assign(h, T, this, other, <<>>)}
    ELSE {operator_assign(h, T, this, other, fresh) :
             fresh \in AllocSeqs(clear(h, T[this]).heap,
                                 Len(Nodes(h, T[other])))}

\* ------------------------------------------------------------- cursor
\* while (curr_idx < capacity && data[curr_idx] == nullptr) curr_idx++;
RECURSIVE FirstNonEmpty(_, _, _)
FirstNonEmpty(d, i, capacity) ==
    IF i < capacity /\ d[i] = nullptr THEN FirstNonEmpty(d, i + 1, capacity)
    ELSE i

\* begin()
begin(hm) ==
    LET idx == FirstNonEmpty(hm.data, 0, hm.capacity)
    IN  [hm EXCEPT !.curr_idx = idx,
                   !.curr = IF idx < hm.capacity THEN hm.data[idx]
                            ELSE nullptr]

\* NextAdvance with "if" for "while": it moves to the following bucket
\* and stops there, empty or not.
NextAdvanceOneStep(d, c, idx, capacity) ==
    IF c # nullptr THEN [curr |-> c, curr_idx |-> idx]
    ELSE IF idx + 1 < capacity
    THEN [curr |-> d[idx + 1], curr_idx |-> idx + 1]
    ELSE [curr |-> nullptr, curr_idx |-> idx + 1]

\* while (curr == nullptr && ++curr_idx < capacity) curr = data[curr_idx];
RECURSIVE NextAdvance(_, _, _, _)
NextAdvance(d, c, idx, capacity) ==
    IF c # nullptr THEN [curr |-> c, curr_idx |-> idx]
    ELSE IF idx + 1 < capacity
    THEN NextAdvance(d, d[idx + 1], idx + 1, capacity)
    ELSE [curr |-> nullptr, curr_idx |-> idx + 1]

\* next returns false: nothing is written.
nextFalse(hm) ==
    [hm |-> hm, ok |-> FALSE, key |-> NoKey, value |-> NoVal,
     crash |-> FALSE]

\* next that unlinks the node it yields from the head of its bucket.
nextPop(h, hm) ==
    IF hm.curr = nullptr
    THEN nextFalse(hm)
    ELSE LET a == NextAdvance(hm.data, h[hm.curr].next, hm.curr_idx,
                              hm.capacity)
         IN  [hm |-> [hm EXCEPT !.curr = a.curr, !.curr_idx = a.curr_idx,
                                !.data[hm.curr_idx] = h[hm.curr].next],
              ok |-> TRUE,
              key |-> h[hm.curr].key,
              value |-> h[hm.curr].value,
              crash |-> FALSE]

\* next after the test of curr, given what its reads deliver: node is the
\* ChainNode read through curr and idx the value read from curr_idx.
nextRead(hm, node, idx) ==
    LET a == NextAdvance(hm.data, node.next, idx, hm.capacity)
    IN  [hm |-> [hm EXCEPT !.curr = a.curr, !.curr_idx = a.curr_idx],
         ok |-> TRUE,
         key |-> node.key,
         value |-> node.value,
         crash |-> FALSE]

\* next(key, value), for a cursor that is null or names an allocated node.
\* ok is the returned bool; key and value are the reference parameters
\* (NoKey and NoVal when they are not set).
next(h, hm) ==
    IF hm.curr = nullptr
    THEN nextFalse(hm)
    ELSE nextRead(hm, h[hm.curr], hm.curr_idx)

\* begin(); while (next(key, value)) { }: one whole traversal, as in the
\* usage example of next.  pairs is the sequence of <<key, value>> yielded.
RECURSIVE Drain(_, _, _)
Drain(h, hm, pairs) ==
    LET r == next(h, hm)
    IN  IF r.ok THEN Drain(h, r.hm, Append(pairs, <<r.key, r.value>>))
        ELSE [hm |-> r.hm, pairs |-> pairs]

traverse(h, hm) == Drain(h, begin(hm), <<>>)

\* Every read of next is a read of a value that was assigned: the cursor
\* is null, or it names an allocated node and curr_idx was set by begin or
\* is not read because the node has a successor.
CursorReadable(h, hm) ==
    IF hm.curr = Wild THEN FALSE
    ELSE IF hm.curr = nullptr THEN TRUE
    ELSE IF IsFree(h, hm.curr) THEN FALSE
    ELSE hm.curr_idx # Wild \/ h[hm.curr].next # nullptr

\* next ends in a memory fault: the process is gone.
nextCrash(hm) ==
    [hm |-> Crashed, ok |-> FALSE, key |-> NoKey, value |-> NoVal,
     crash |-> TRUE]

\* Every way a call of next(key, value) can end.  With a readable cursor it
\* is next.  Otherwise next reads indeterminate values and each read may
\* deliver anything: a curr never set by a constructor holds any pointer; a
\* curr left on a node that erase, clear, operator= or the destructor
\* released, or one that points outside the heap, reads any key, value and
\* successor (Wild is an address outside the heap) or faults; a curr_idx
\* never set holds whatever its storage held, any index from SIZE_MAX
\* (Wild, so that ++curr_idx is 0) to MaxStaleIdx, above the capacity
\* included: the loop of 388-390 then leaves that index plus one.  With
\* these reads the statements of next do what they do: they write to curr,
\* curr_idx and the reference parameters and to nothing else.
nextOutcomes(h, hm) ==
    IF CursorReadable(h, hm) THEN {next(h, hm)}
    ELSE LET currs == IF hm.curr = Wild THEN {Wild, nullptr} \cup NodeIds
                      ELSE {hm.curr}
             Live(c) == IF c \in NodeIds THEN ~IsFree(h, c) ELSE FALSE
             Read(c) == IF Live(c) THEN {h[c]}
                        ELSE {ChainNode(k, v, n) :
                                 k \in Keys \cup {Garbage},
                                 v \in Vals \cup {Garbage},
                                 n \in {Wild, nullptr} \cup NodeIds}
             Idx(node) == IF hm.curr_idx = Wild /\ node.next = nullptr
                          THEN Wild..MaxStaleIdx
                          ELSE {hm.curr_idx}
             From(c) == IF c = nullptr THEN {nextFalse(hm)}
                        ELSE UNION {{nextRead(hm, node, idx) :
                                        idx \in Idx(node)} :
                                    node \in Read(c)}
                             \cup IF Live(c) THEN {} ELSE {nextCrash(hm)}
         IN  UNION {From(c) : c \in currs}

\* ~HashMap(): every node is released and the object is gone.
destroy(h, hm) == [heap |-> clear(h, hm).heap, hm |-> NoTable]

\* ------------------------------------------------------ initial state
\* HashMap(): 10 buckets.
DefaultCapacity == 10

\* HashMap(size_t capacity), capacity > 0.  The cursor fields are not
\* initialized.
construct(capacity) == HashMapObj(NewBuckets(capacity), 0, capacity, Wild, Wild)

\* HashMap()
construct_default == construct(DefaultCapacity)

Constructed(t) == tbl[t].capacity > 0

EmptyAbs == [k \in Keys |-> NoVal]

\* Table 1 is constructed with 1..MaxCap buckets or by the default
\* constructor; table 2 is not constructed yet.
Init ==
    /\ heap = [n \in NodeIds |-> FreeNode]
    /\ \E hm \in {construct(c) : c \in 1..MaxCap} \cup {construct_default} :
           tbl = [t \in Tables |-> IF t = 1 THEN hm ELSE NoTable]
    /\ abs = [t \in Tables |-> EmptyAbs]

\* ------------------------------------------------------------- actions
\* t.insert(key, value); needs a free heap cell when key is new.
CanInsert(h, hm, key) == contains(h, hm, key) \/ NumFree(h) > 0

CallInsert(t, key, value) ==
    /\ Constructed(t)
    /\ CanInsert(heap, tbl[t], key)
    /\ \E r \in insertOutcomes(heap, tbl[t], key, value) :
           /\ heap' = r.heap
           /\ tbl' = [tbl EXCEPT ![t] = r.hm]
    /\ abs' = IF abs[t][key] = NoVal THEN [abs EXCEPT ![t][key] = value]
              ELSE abs

\* t.erase(key); nothing changes when erase throws.
CallErase(t, key) ==
    /\ Constructed(t)
    /\ LET r == erase(heap, tbl[t], key)
       IN  /\ heap' = r.heap
           /\ tbl' = [tbl EXCEPT ![t] = r.hm]
    /\ abs' = [abs EXCEPT ![t][key] = NoVal]

\* t.clear()
CallClear(t) ==
    /\ Constructed(t)
    /\ LET r == clear(heap, tbl[t])
       IN  /\ heap' = r.heap
           /\ tbl' = [tbl EXCEPT ![t] = r.hm]
    /\ abs' = [abs EXCEPT ![t] = EmptyAbs]

\* t.rehash(new_capacity), called directly
CallRehash(t, new_capacity) ==
    /\ Constructed(t)
    /\ LET r == rehash(heap, tbl[t], new_capacity)
       IN  /\ heap' = r.heap
           /\ tbl' = [tbl EXCEPT ![t] = r.hm]
    /\ UNCHANGED abs

\* t.at(key) = value: a write through the returned reference.
atWrite(h, hm, key, value) ==
    LET node == atRef(h, hm, key)
    IN  IF node = nullptr THEN h ELSE [h EXCEPT ![node].value = value]

\* Nothing is written when at throws.
CallAtWrite(t, key, value) ==
    /\ Constructed(t)
    /\ heap' = atWrite(heap, tbl[t], key, value)
    /\ abs' = IF abs[t][key] = NoVal THEN abs
              ELSE [abs EXCEPT ![t][key] = value]
    /\ UNCHANGED tbl

\* HashMap this(other): copy construction of a table not constructed yet;
\* needs a free heap cell for every node of other.
CanCopyConstruct(h, T, this, other) ==
    /\ T[this] = NoTable
    /\ T[other].capacity > 0
    /\ NumFree(h) >= Len(Nodes(h, T[other]))

CallCopyConstruct(this, other) ==
    /\ CanCopyConstruct(heap, tbl, this, other)
    /\ \E r \in copy_constructOutcomes(heap, tbl, this, other) :
           /\ heap' = r.heap
           /\ tbl' = r.tbl
    /\ abs' = [abs EXCEPT ![this] = abs[other]]

\* this = other, this and other being the same table or not; needs a free
\* heap cell for every node of other once this is cleared.
CanAssign(h, T, this, other) ==
    /\ T[this].capacity > 0
    /\ T[other].capacity > 0
    /\ IF this = other THEN TRUE
       ELSE NumFree(clear(h, T[this]).heap) >= Len(Nodes(h, T[other]))

CallAssign(this, other) ==
    /\ CanAssign(heap, tbl, this, other)
    /\ \E r \in operator_assignOutcomes(heap, tbl, this, other) :
           /\ heap' = r.heap
           /\ tbl' = r.tbl
    /\ abs' = [abs EXCEPT ![this] = abs[other]]

\* t.begin()
CallBegin(t) ==
    /\ Constructed(t)
    /\ tbl' = [tbl EXCEPT ![t] = begin(tbl[t])]
    /\ UNCHANGED <<heap, abs>>

\* t.next(key, value).  After a memory fault no object and no node is left.
CallNext(t) ==
    /\ Constructed(t)
    /\ \E hm \in {r.hm : r \in nextOutcomes(heap, tbl[t])} :
           IF hm = Crashed
           THEN /\ tbl' = [u \in Tables |-> Crashed]
                /\ heap' = [n \in NodeIds |-> FreeNode]
                /\ abs' = [u \in Tables |-> EmptyAbs]
           ELSE /\ tbl' = [tbl EXCEPT ![t] = hm]
                /\ UNCHANGED <<heap, abs>>

\* HashMap t(capacity) or, with capacity = DefaultCapacity, HashMap t: a
\* table is constructed where none is.
CallConstruct(t, capacity) ==
    /\ tbl[t] = NoTable
    /\ tbl' = [tbl EXCEPT ![t] = construct(capacity)]
    /\ UNCHANGED <<heap, abs>>

\* Table t goes out of scope or is deleted: ~HashMap()
CallDestroy(t) ==
    /\ Constructed(t)
    /\ LET r == destroy(heap, tbl[t])
       IN  /\ heap' = r.heap
           /\ tbl' = [tbl EXCEPT ![t] = r.hm]
    /\ abs' = [abs EXCEPT ![t] = EmptyAbs]

\* ------------------------------------------------------ specifications
\* One table, from its construction to its destruction and on to the next
\* one: insert, erase, clear, rehash and writes through at, over the keys
\* 0..MaxKey.  begin and next are left to SpecIter: they write curr and
\* curr_idx, which no action of this specification reads.
Next ==
    \/ \E key \in Keys, value \in Vals : CallInsert(1, key, value)
    \/ \E key \in Keys : CallErase(1, key)
    \/ CallClear(1)
    \/ \E new_capacity \in 1..MaxCap : CallRehash(1, new_capacity)
    \/ \E key \in Keys, value \in Vals : CallAtWrite(1, key, value)
    \/ CallDestroy(1)
    \/ \E capacity \in 1..MaxCap \cup {DefaultCapacity} :
           CallConstruct(1, capacity)

Spec == Init /\ [][Next]_vars

\* Table 1 is constructed with 1..MaxCopyCap buckets; table 2 is not
\* constructed yet.
InitCopy ==
    /\ heap = [n \in NodeIds |-> FreeNode]
    /\ \E c \in 1..MaxCopyCap :
           tbl = [t \in Tables |-> IF t = 1 THEN construct(c) ELSE NoTable]
    /\ abs = [t \in Tables |-> EmptyAbs]

\* Two tables, each constructed with a capacity or as a copy of the other:
\* every operation on either table, call by call, over the keys
\* 0..MaxCopyKey.  The caller traverses table 1, which is source and target
\* of copies and assignments as table 2 is; the cursor of table 2 stays as
\* its constructor left it.
NextCopy ==
    \E this \in Tables :
        \/ \E key \in CopyKeys, value \in CopyVals :
               CallInsert(this, key, value)
        \/ \E key \in CopyKeys : CallErase(this, key)
        \/ CallClear(this)
        \/ \E new_capacity \in 1..MaxCopyCap : CallRehash(this, new_capacity)
        \/ \E key \in CopyKeys, value \in CopyVals :
               CallAtWrite(this, key, value)
        \/ \E other \in Tables : CallCopyConstruct(this, other)
        \/ \E other \in Tables : CallAssign(this, other)
        \/ (this = 1 /\ CallBegin(this))
        \/ (this = 1 /\ CallNext(this))
        \/ CallDestroy(this)
        \/ \E capacity \in 1..MaxCopyCap : CallConstruct(this, capacity)

SpecCopy == InitCopy /\ [][NextCopy]_vars

\* One table with its cursor: begin and next call by call, between and
\* during insert, erase, clear, rehash and writes through at, over the keys
\* 0..MaxIterKey.
NextIter ==
    \/ \E key \in IterKeys, value \in Vals : CallInsert(1, key, value)
    \/ \E key \in IterKeys : CallErase(1, key)
    \/ CallClear(1)
    \/ \E new_capacity \in 1..MaxCap : CallRehash(1, new_capacity)
    \/ \E key \in IterKeys, value \in Vals : CallAtWrite(1, key, value)
    \/ CallBegin(1)
    \/ CallNext(1)
    \/ CallDestroy(1)
    \/ \E capacity \in 1..MaxCap \cup {DefaultCapacity} :
           CallConstruct(1, capacity)

SpecIter == Init /\ [][NextIter]_vars

\* Two tables under every operation except a direct call of rehash: the
\* capacity changes through the constructors, insert and assignment only.
\* begin and next are left out as in Spec.  The calls pass the keys
\* 0..MaxIterKey.
NextGrow ==
    \E this \in Tables :
        \/ \E key \in IterKeys, value \in Vals : CallInsert(this, key, value)
        \/ \E key \in IterKeys : CallErase(this, key)
        \/ CallClear(this)
        \/ \E other \in Tables : CallCopyConstruct(this, other)
        \/ \E other \in Tables : CallAssign(this, other)
        \/ CallDestroy(this)
        \/ \E capacity \in 1..MaxCopyCap : CallConstruct(this, capacity)

SpecGrow == InitCopy /\ [][NextGrow]_vars

\* =================================================================
\* What a caller can observe of a table
\* =================================================================
Range(seq) == {seq[i] : i \in 1..Len(seq)}

\* at(k) for every key k: the value, or KeyNotFound.
Lookup(h, hm) == [k \in Keys |-> at(h, hm, k)]

\* The same for the abstract map of table t.
AbsLookup(t) ==
    [k \in Keys |-> IF abs[t][k] = NoVal THEN KeyNotFound ELSE abs[t][k]]

InAbs(t, k) == abs[t][k] # NoVal
AbsSize(t) == Cardinality({k \in Keys : InAbs(t, k)})

\* =================================================================
\* Claims, single table (Spec)
\* =================================================================

\* C1: after any sequence of insert, erase and clear calls (rehashes
\* included) the table agrees with the abstract map run beside it: for every
\* key k, contains(k) holds exactly when k is in the abstract map, at(k)
\* returns the abstract map's value when k is present and fails with
\* KeyNotFound when k is absent.
C1_AgreesWithAbstractMap ==
    Constructed(1) =>
        \A k \in Keys :
            /\ contains(heap, tbl[1], k) <=> InAbs(1, k)
            /\ InAbs(1, k) => at(heap, tbl[1], k) = abs[1][k]
            /\ ~InAbs(1, k) => at(heap, tbl[1], k) = KeyNotFound

\* Two keys that collide in one chain of a two-bucket table, one value
\* each, and a key that is absent.
C1_Witness ==
    /\ tbl[1].capacity = 2
    /\ tbl[1].sz = 2
    /\ at(heap, tbl[1], 0) = 1
    /\ at(heap, tbl[1], 2) = 2
    /\ contains(heap, tbl[1], 2)
    /\ ~contains(heap, tbl[1], 1)
    /\ at(heap, tbl[1], 1) = KeyNotFound

\* C3: first write wins: insert(k, v2) on a table that holds k is a no-op:
\* the heap (every node, value and link) and the object (size, capacity,
\* buckets) are what they were, so at(k) still returns the first value.
C3_DuplicateInsertIsNoOp ==
    Constructed(1) =>
        \A k \in Keys, v2 \in Vals :
            InAbs(1, k) =>
                \A r \in insertOutcomes(heap, tbl[1], k, v2) :
                    /\ r.heap = heap
                    /\ r.hm = tbl[1]
                    /\ at(r.heap, r.hm, k) = abs[1][k]

\* A key k mapped to v1, deep in a chain, and insert(k, v2) with v2 # v1
\* applied to it.
C3_Witness ==
    /\ Constructed(1)
    /\ \E k \in Keys, v2 \in Vals :
           /\ InAbs(1, k)
           /\ abs[1][k] # v2
           /\ tbl[1].sz >= 3
           /\ tbl[1].data[BucketIndex(tbl[1], k)] # atRef(heap, tbl[1], k)
           /\ \E r \in insertOutcomes(heap, tbl[1], k, v2) :
                  at(r.heap, r.hm, k) = abs[1][k]

\* C4: erase(k) on a table that holds k returns the value mapped to k,
\* decreases size by exactly 1 and leaves contains(k) false; capacity is
\* unchanged and every other key is present or absent as before, with its
\* value unchanged, wherever k's node sat in its chain.
C4_ErasePresent ==
    Constructed(1) =>
        \A k \in Keys :
            InAbs(1, k) =>
                LET r == erase(heap, tbl[1], k)
                IN  /\ r.ret = abs[1][k]
                    /\ r.hm.sz = tbl[1].sz - 1
                    /\ ~contains(r.heap, r.hm, k)
                    /\ r.hm.capacity = tbl[1].capacity
                    /\ \A j \in Keys \ {k} :
                           /\ at(r.heap, r.hm, j) = at(heap, tbl[1], j)
                           /\ contains(r.heap, r.hm, j)
                                  = contains(heap, tbl[1], j)

\* A chain of at least three nodes whose head, a middle node and tail are
\* each erased.
C4_Witness ==
    /\ Constructed(1)
    /\ \E k1 \in Keys, k2 \in Keys, k3 \in Keys :
           /\ erase(heap, tbl[1], k1).pos = "head"
           /\ erase(heap, tbl[1], k2).pos = "middle"
           /\ erase(heap, tbl[1], k3).pos = "tail"
           /\ erase(heap, tbl[1], k2).ret = abs[1][k2]
           /\ BucketIndex(tbl[1], k1) = BucketIndex(tbl[1], k2)
           /\ BucketIndex(tbl[1], k2) = BucketIndex(tbl[1], k3)

\* C5: at(k) and erase(k) fail with KeyNotFound exactly when k is absent,
\* and a failed call changes nothing: heap, size, capacity, buckets, chain
\* order and values are what they were.
C5_KeyNotFoundChangesNothing ==
    Constructed(1) =>
        \A k \in Keys :
            /\ at(heap, tbl[1], k) = KeyNotFound <=> ~InAbs(1, k)
            /\ erase(heap, tbl[1], k).ret = KeyNotFound <=> ~InAbs(1, k)
            /\ ~InAbs(1, k) =>
                   /\ erase(heap, tbl[1], k).heap = heap
                   /\ erase(heap, tbl[1], k).hm = tbl[1]
                   /\ \A v \in Vals : atWrite(heap, tbl[1], k, v) = heap

\* A table that holds keys and lacks k, k's bucket holding a chain of at
\* least two nodes: erase(k) and at(k) walk the whole chain and throw.
C5_Witness ==
    /\ Constructed(1)
    /\ \E k \in Keys :
           /\ ~InAbs(1, k)
           /\ Len(Chain(heap, tbl[1].data[BucketIndex(tbl[1], k)])) >= 2
           /\ erase(heap, tbl[1], k).ret = KeyNotFound
           /\ at(heap, tbl[1], k) = KeyNotFound

\* C6: a rehash loses and alters nothing.  For rehash(new_capacity) called
\* directly with any new_capacity > 0, at answers for every key exactly as
\* before and size is unchanged; an insert that triggers the rehash leaves
\* exactly the old pairs plus the new one, and size one larger.
C6_RehashPreservesPairs ==
    Constructed(1) =>
        /\ \A new_capacity \in 1..MaxCap :
               LET r == rehash(heap, tbl[1], new_capacity)
               IN  /\ Lookup(r.heap, r.hm) = AbsLookup(1)
                   /\ r.hm.sz = tbl[1].sz
                   /\ r.hm.sz = AbsSize(1)
        /\ \A k \in Keys, v \in Vals :
               (~InAbs(1, k) /\ CanInsert(heap, tbl[1], k)) =>
                   \A r \in insertOutcomes(heap, tbl[1], k, v) :
                       r.hm.capacity # tbl[1].capacity =>
                           /\ Lookup(r.heap, r.hm)
                                  = [AbsLookup(1) EXCEPT ![k] = v]
                           /\ r.hm.sz = tbl[1].sz + 1

\* Two keys in one chain, one value each: a direct rehash to two buckets
\* relinks them into both buckets, and the insert of a third key triggers a
\* rehash that doubles the capacity.
C6_Witness ==
    /\ tbl[1].capacity = 1
    /\ tbl[1].sz = 2
    /\ \E k \in Keys : abs[1][k] = 1
    /\ \E k \in Keys : abs[1][k] = 2
    /\ LET r == rehash(heap, tbl[1], 2)
       IN  /\ r.hm.data[0] # nullptr
           /\ r.hm.data[1] # nullptr
           /\ r.heap # heap
    /\ \E k \in Keys, v \in Vals :
           \E r \in insertOutcomes(heap, tbl[1], k, v) :
               /\ ~InAbs(1, k)
               /\ r.hm.capacity = 2
               /\ r.hm.sz = 3
               /\ at(r.heap, r.hm, k) = v

\* C7: the growth trigger is exact.  An insert of a new key rehashes to
\* exactly 2 * capacity if and only if, the new node counted, 2 * size >
\* 3 * capacity; otherwise (a load factor of exactly 1.5 included) capacity
\* and the bucket array length are unchanged.  Either way the size grows
\* by one and every key is retrievable afterwards, the new one with the
\* inserted value.  An insert of a present key never changes capacity.
C7_GrowthTriggerExact ==
    Constructed(1) =>
        \A k \in Keys, v \in Vals :
            CanInsert(heap, tbl[1], k) =>
                \A r \in insertOutcomes(heap, tbl[1], k, v) :
                    IF InAbs(1, k)
                    THEN r.hm.capacity = tbl[1].capacity
                    ELSE /\ IF 2 * (tbl[1].sz + 1) > 3 * tbl[1].capacity
                            THEN r.hm.capacity = 2 * tbl[1].capacity
                            ELSE /\ r.hm.capacity = tbl[1].capacity
                                 /\ DOMAIN r.hm.data = DOMAIN tbl[1].data
                         /\ DOMAIN r.hm.data = 0..(r.hm.capacity - 1)
                         /\ r.hm.sz = tbl[1].sz + 1
                         /\ Lookup(r.heap, r.hm)
                                = [AbsLookup(1) EXCEPT ![k] = v]

\* A capacity-2 table that holds three distinct keys, a load factor of
\* exactly 1.5: the insert that made the third of them left the capacity
\* at 2, and the insert of the fourth key gives capacity 4 and size 4 with
\* all four keys retrievable, each in its own bucket.
C7_Witness ==
    /\ Constructed(1)
    /\ tbl[1].capacity = 2
    /\ tbl[1].sz = 3
    /\ AbsSize(1) = 3
    /\ \E j \in Keys, w \in Vals :
           LET two == erase(heap, tbl[1], j)
           IN  /\ InAbs(1, j)
               /\ two.hm.sz = 2
               /\ \A r \in insertOutcomes(two.heap, two.hm, j, w) :
                      /\ r.hm.sz = 3
                      /\ r.hm.capacity = 2
    /\ \E k \in Keys, v \in Vals :
           /\ ~InAbs(1, k)
           /\ CanInsert(heap, tbl[1], k)
           /\ \A r \in insertOutcomes(heap, tbl[1], k, v) :
                  /\ r.hm.capacity = 4
                  /\ r.hm.sz = 4
                  /\ \A i \in Keys : /\ contains(r.heap, r.hm, i)
                                     /\ r.hm.data[i] # nullptr
                                     /\ r.heap[r.hm.data[i]].key = i
                  /\ at(r.heap, r.hm, k) = v

\* C12: clear() leaves size 0 and every bucket empty, keeps the capacity
\* and the bucket array's length, and releases every node; afterwards
\* contains(k) is false and at(k) fails with KeyNotFound for every key k,
\* and the table takes new inserts as a fresh table of that capacity does.
C12_ClearEmptiesTable ==
    Constructed(1) =>
        LET r == clear(heap, tbl[1])
        IN  /\ r.hm.sz = 0
            /\ empty(r.hm)
            /\ r.hm.capacity = tbl[1].capacity
            /\ DOMAIN r.hm.data = DOMAIN tbl[1].data
            /\ \A i \in DOMAIN r.hm.data : r.hm.data[i] = nullptr
            /\ Alloc(r.heap) = NodeIds
            /\ \A k \in Keys :
                   /\ ~contains(r.heap, r.hm, k)
                   /\ at(r.heap, r.hm, k) = KeyNotFound
            /\ \A k \in Keys, v \in Vals, new_node \in Alloc(r.heap) :
                   LET g == insert(r.heap, r.hm, k, v, new_node)
                       f == insert(r.heap, construct(tbl[1].capacity), k, v,
                                   new_node)
                   IN  /\ at(g.heap, g.hm, k) = v
                       /\ g.hm.sz = 1
                       /\ g.hm.data = f.hm.data
                       /\ g.hm.capacity = f.hm.capacity
                       /\ \A j \in Keys \ {k} : ~contains(g.heap, g.hm, j)

\* Three keys in two buckets, one chain of two nodes: clear() releases the
\* three nodes, and a key that was present is absent and can be inserted
\* again with another value.
C12_Witness ==
    /\ tbl[1].capacity = 2
    /\ tbl[1].sz = 3
    /\ NumFree(heap) = MaxNodes - 3
    /\ LET r == clear(heap, tbl[1])
       IN  /\ r.hm.sz = 0
           /\ r.hm.capacity = 2
           /\ NumFree(r.heap) = MaxNodes
           /\ \E k \in Keys, v \in Vals :
                  /\ InAbs(1, k)
                  /\ abs[1][k] # v
                  /\ ~contains(r.heap, r.hm, k)
                  /\ \E g \in insertOutcomes(r.heap, r.hm, k, v) :
                         at(g.heap, g.hm, k) = v

\* =================================================================
\* Claims, two tables (SpecCopy)
\* =================================================================
\* size, capacity, keys and values of a table, as its caller sees them.
View(h, hm) ==
    [sz |-> hm.sz, capacity |-> hm.capacity, lookup |-> Lookup(h, hm)]

NodeSet(h, hm) == Range(Nodes(h, hm))

\* C2: in every state reached through constructors, insert, erase, clear,
\* rehash, copy construction and assignment, size() is the number of nodes
\* in the chains; it is the number of distinct keys inserted and not erased;
\* and empty() holds exactly when that number is 0.
C2_SizeCountsNodes ==
    \A t \in Tables :
        Constructed(t) =>
            /\ size(tbl[t]) = Len(Nodes(heap, tbl[t]))
            /\ size(tbl[t]) = AbsSize(t)
            /\ empty(tbl[t]) <=> AbsSize(t) = 0

\* Table 2 was copy constructed and then grew by an insert and a rehash,
\* table 1 was assigned to or erased from: the sizes differ and both count
\* their own nodes.
C2_Witness ==
    /\ Constructed(1) /\ Constructed(2)
    /\ size(tbl[2]) = 2
    /\ tbl[2].capacity = 2
    /\ Len(Nodes(heap, tbl[2])) = 2
    /\ size(tbl[1]) = 1
    /\ tbl[1].capacity = 1
    /\ NumFree(heap) = MaxNodes - 3

\* C8: a table and its copy are independent.  They share no node, and no
\* operation on one of them (insert, erase, clear, rehash, a write through
\* at, a traversal with begin and next, its destruction) changes the size,
\* the capacity, the keys or the values of the other; a traversal changes
\* nothing of its own table but the cursor.
C8_CopiesAreIndependent ==
    \A t \in Tables, u \in Tables :
        (t # u /\ Constructed(t) /\ Constructed(u)) =>
            /\ NodeSet(heap, tbl[t]) \cap NodeSet(heap, tbl[u]) = {}
            /\ \A k \in CopyKeys, v \in Vals :
                   CanInsert(heap, tbl[t], k) =>
                       \A r \in insertOutcomes(heap, tbl[t], k, v) :
                           View(r.heap, tbl[u]) = View(heap, tbl[u])
            /\ \A k \in CopyKeys :
                   View(erase(heap, tbl[t], k).heap, tbl[u])
                       = View(heap, tbl[u])
            /\ View(clear(heap, tbl[t]).heap, tbl[u]) = View(heap, tbl[u])
            /\ View(destroy(heap, tbl[t]).heap, tbl[u]) = View(heap, tbl[u])
            /\ \A new_capacity \in 1..MaxCopyCap :
                   View(rehash(heap, tbl[t], new_capacity).heap, tbl[u])
                       = View(heap, tbl[u])
            /\ \A k \in CopyKeys, v \in Vals :
                   View(atWrite(heap, tbl[t], k, v), tbl[u])
                       = View(heap, tbl[u])
            /\ [traverse(heap, tbl[t]).hm EXCEPT !.curr = tbl[t].curr,
                                                 !.curr_idx = tbl[t].curr_idx]
                   = tbl[t]

\* A copy was made of a table holding both keys in one chain, and then the
\* two went apart: the original erased a key, was traversed to the end and
\* has its other value overwritten, the copy was rehashed and still holds
\* both keys with the values copied.
C8_Witness ==
    /\ Constructed(1) /\ Constructed(2)
    /\ tbl[1].capacity = 1
    /\ tbl[2].capacity = 2
    /\ Lookup(heap, tbl[1]) = [k \in Keys |-> IF k = 0 THEN 1 ELSE KeyNotFound]
    /\ Lookup(heap, tbl[2]) = [k \in Keys |-> IF k \in {0, 1} THEN 1
                                              ELSE KeyNotFound]
    /\ tbl[1].curr = nullptr
    /\ tbl[1].curr_idx = 1
    /\ at(atWrite(heap, tbl[1], 0, 2), tbl[1], 0) = 2
    /\ at(atWrite(heap, tbl[1], 0, 2), tbl[2], 0) = 1

\* C9: copy construction from S, and assignment T = S with T another table
\* than S, give a table with the capacity, the size and exactly the (key,
\* value) pairs of S, whatever values were written to S and whichever
\* addresses the new nodes get: nothing T held before survives unless S
\* holds it.  S itself is unchanged.
C9_CopyEqualsSource ==
    \A this \in Tables, other \in Tables :
        \A k \in CopyKeys, v \in Vals :
            LET h == atWrite(heap, tbl[other], k, v)
            IN  /\ CanCopyConstruct(h, tbl, this, other) =>
                       \A r \in copy_constructOutcomes(h, tbl, this, other) :
                           /\ View(r.heap, r.tbl[this]) = View(h, tbl[other])
                           /\ Len(Nodes(r.heap, r.tbl[this])) = tbl[other].sz
                           /\ r.tbl[other] = tbl[other]
                           /\ View(r.heap, r.tbl[other]) = View(h, tbl[other])
                /\ (this # other /\ CanAssign(h, tbl, this, other)) =>
                       \A r \in operator_assignOutcomes(h, tbl, this, other) :
                           /\ View(r.heap, r.tbl[this]) = View(h, tbl[other])
                           /\ Len(Nodes(r.heap, r.tbl[this])) = tbl[other].sz
                           /\ r.tbl[other] = tbl[other]
                           /\ View(r.heap, r.tbl[other]) = View(h, tbl[other])

\* Table 2 holds key 0 alone in two buckets; table 1 holds both keys in one
\* chain and value 2 is written to key 1.  The assignment 2 = 1 gives
\* table 2 one bucket and table 1's two pairs.
C9_Witness ==
    /\ Constructed(1) /\ Constructed(2)
    /\ tbl[2].capacity = 2
    /\ Lookup(heap, tbl[2]) = [k \in Keys |-> IF k = 0 THEN 1 ELSE KeyNotFound]
    /\ tbl[1].capacity = 1
    /\ Lookup(heap, tbl[1]) = [k \in Keys |-> IF k \in {0, 1} THEN 1
                                              ELSE KeyNotFound]
    /\ LET h == atWrite(heap, tbl[1], 1, 2)
       IN  /\ CanAssign(h, tbl, 2, 1)
           /\ \E r \in operator_assignOutcomes(h, tbl, 2, 1) :
                  /\ r.tbl[2].capacity = 1
                  /\ r.tbl[2].sz = 2
                  /\ at(r.heap, r.tbl[2], 0) = 1
                  /\ at(r.heap, r.tbl[2], 1) = 2

\* C10: self-assignment T = T is a no-op: the heap (nodes, links, values)
\* and every field of T (size, capacity, buckets, cursor) are what they
\* were.  Nothing is released by the call, so it reads no released node and
\* no released bucket array.
C10_SelfAssignIsNoOp ==
    \A t \in Tables :
        Constructed(t) =>
            \A r \in operator_assignOutcomes(heap, tbl, t, t) :
                /\ r.heap = heap
                /\ r.tbl = tbl
                /\ NumFree(r.heap) = NumFree(heap)

\* A table that holds two keys in one chain, a copy of it beside it, and
\* the table assigned to itself.
C10_Witness ==
    \E t \in Tables :
        /\ Constructed(1) /\ Constructed(2)
        /\ tbl[t].sz = 2
        /\ Len(Chain(heap, tbl[t].data[0])) = 2
        /\ CanAssign(heap, tbl, t, t)
        /\ \E r \in operator_assignOutcomes(heap, tbl, t, t) :
               Lookup(r.heap, r.tbl[t]) = AbsLookup(t)

\* =================================================================
\* Claims, one table and its cursor (SpecIter)
\* =================================================================
\* The pairs of the abstract map of table t.
AbsPairs(t) == {<<k, abs[t][k]>> : k \in {j \in Keys : InAbs(t, j)}}

\* C11: a traversal is complete and single-pass.  In whatever state begin()
\* is called (cursor never set, in the middle of an earlier traversal, or
\* left on a released node), with no mutation afterwards, the next N calls
\* of next() return true, N being the number of entries, and yield every
\* stored pair exactly once; the call after them returns false and leaves
\* the cursor where it is, so every later call returns false too.  On an
\* empty table the first call after begin() returns false.  After begin()
\* every call of the traversal reads a live node, so each has one outcome.
C11_TraversalCompleteSinglePass ==
    Constructed(1) =>
        LET t == traverse(heap, tbl[1])
            after == next(heap, t.hm)
        IN  /\ Len(t.pairs) = AbsSize(1)
            /\ Len(t.pairs) = tbl[1].sz
            /\ Range(t.pairs) = AbsPairs(1)
            /\ after.ok = FALSE
            /\ after.hm = t.hm
            /\ next(heap, after.hm).ok = FALSE
            /\ nextOutcomes(heap, t.hm) = {after}
            /\ nextOutcomes(heap, begin(tbl[1])) = {next(heap, begin(tbl[1]))}
            /\ AbsSize(1) = 0 => next(heap, begin(tbl[1])).ok = FALSE

\* Keys 0 and 2 in buckets 0 and 2 of four, an empty bucket between them
\* and one after them; an earlier traversal stands on the second node, and
\* begin() starts a new one that yields both pairs, in bucket order.
C11_Witness ==
    /\ tbl[1].capacity = 4
    /\ tbl[1].sz = 2
    /\ InAbs(1, 0) /\ InAbs(1, 2)
    /\ tbl[1].curr = atRef(heap, tbl[1], 2)
    /\ tbl[1].curr_idx = 2
    /\ begin(tbl[1]).curr = atRef(heap, tbl[1], 0)
    /\ traverse(heap, tbl[1]).pairs = <<<<0, abs[1][0]>>, <<2, abs[1][2]>>>>
    /\ traverse(heap, tbl[1]).hm.curr_idx = 4

\* Two objects with the same size, capacity and bucket array.
SameTable(a, b) ==
    /\ a.sz = b.sz
    /\ a.capacity = b.capacity
    /\ a.data = b.data

\* C18: begin() and next() modify nothing except curr and curr_idx.  In
\* every state, whatever the cursor holds, begin(), next() after begin()
\* and a whole traversal leave size, capacity and the bucket array as they
\* were, and so does every outcome of next() in which the call returns,
\* the ones that read a released node included (a call that ends the
\* process leaves no table to look at); they return no heap, so nodes,
\* links, keys and values are as before, and at answers for every key as
\* the abstract map does.
C18_CursorCallsModifyNothingElse ==
    Constructed(1) =>
        LET hm == tbl[1]
            t == traverse(heap, hm)
        IN  /\ SameTable(begin(hm), hm)
            /\ \A r \in nextOutcomes(heap, hm) :
                   r.crash \/ SameTable(r.hm, hm)
            /\ SameTable(next(heap, begin(hm)).hm, hm)
            /\ SameTable(t.hm, hm)
            /\ Nodes(heap, t.hm) = Nodes(heap, hm)
            /\ Lookup(heap, t.hm) = AbsLookup(1)
            /\ \A r \in nextOutcomes(heap, hm) :
                   r.crash \/ Lookup(heap, r.hm) = AbsLookup(1)

\* Three entries and a cursor in the middle of a traversal, on a live node
\* that is not the one begin() starts at: next() yields that node's pair
\* and moves the cursor, and the table is as it was.
C18_Witness ==
    /\ Constructed(1)
    /\ tbl[1].sz = 3
    /\ CursorReadable(heap, tbl[1])
    /\ tbl[1].curr # nullptr
    /\ tbl[1].curr # begin(tbl[1]).curr
    /\ nextOutcomes(heap, tbl[1]) = {next(heap, tbl[1])}
    /\ LET r == next(heap, tbl[1])
       IN  /\ r.ok
           /\ ~r.crash
           /\ r.value = abs[1][r.key]
           /\ r.hm.curr # tbl[1].curr
           /\ r.hm.data = tbl[1].data
           /\ Lookup(heap, r.hm) = AbsLookup(1)

\* =================================================================
\* Claims on the structure of the buckets (SpecCopy)
\* =================================================================
\* Every node of every chain sits in the bucket its key hashes to.
Placed(h, hm) ==
    \A i \in 0..(hm.capacity - 1) :
        \A n \in Range(Chain(h, hm.data[i])) :
            Hash(h[n].key) % hm.capacity = i

\* C13: bucket placement.  In every state reached through the constructors,
\* insert, erase, clear, rehash, copy construction and assignment, every
\* node of a table lies in the chain of bucket hash(key) mod capacity, for
\* the table's current capacity; a rehash to any capacity, an insert of
\* any key (one that triggers a rehash included), a copy construction and
\* an assignment leave it so.
C13_BucketPlacement ==
    \A t \in Tables :
        /\ Constructed(t) =>
               /\ Placed(heap, tbl[t])
               /\ DOMAIN tbl[t].data = 0..(tbl[t].capacity - 1)
               /\ \A new_capacity \in 1..MaxCap :
                      Placed(rehash(heap, tbl[t], new_capacity).heap,
                             rehash(heap, tbl[t], new_capacity).hm)
               /\ \A k \in Keys, v \in Vals :
                      CanInsert(heap, tbl[t], k) =>
                          \A r \in insertOutcomes(heap, tbl[t], k, v) :
                              Placed(r.heap, r.hm)
        /\ \A other \in Tables :
               /\ CanCopyConstruct(heap, tbl, t, other) =>
                      \A r \in copy_constructOutcomes(heap, tbl, t, other) :
                          Placed(r.heap, r.tbl[t])
               /\ CanAssign(heap, tbl, t, other) =>
                      \A r \in operator_assignOutcomes(heap, tbl, t, other) :
                          Placed(r.heap, r.tbl[t])

\* A one-bucket table of keys 0 and 1 and a copy of it that was then
\* rehashed to two buckets, where key 1 has moved to bucket 1.
C13_Witness ==
    /\ Constructed(1) /\ Constructed(2)
    /\ \E t \in Tables, u \in Tables :
           /\ tbl[t].capacity = 1
           /\ tbl[t].sz = 2
           /\ tbl[u].capacity = 2
           /\ tbl[u].sz = 2
           /\ tbl[u].data[0] # nullptr
           /\ tbl[u].data[1] # nullptr
           /\ heap[tbl[u].data[1]].key = 1
           /\ heap[tbl[u].data[0]].key = 0

\* No two nodes of the table hold equal keys.
UniqueKeys(h, hm) ==
    LET ns == Nodes(h, hm)
    IN  \A i \in 1..Len(ns) : \A j \in 1..Len(ns) :
            i # j => h[ns[i]].key # h[ns[j]].key

\* C14: key uniqueness.  In every reachable state no two nodes of a table
\* hold equal keys, and an insert of any key, present or absent, a rehash
\* to any capacity and an erase leave it so.
C14_KeyUniqueness ==
    \A t \in Tables :
        Constructed(t) =>
            /\ UniqueKeys(heap, tbl[t])
            /\ \A k \in Keys, v \in Vals :
                   CanInsert(heap, tbl[t], k) =>
                       \A r \in insertOutcomes(heap, tbl[t], k, v) :
                           UniqueKeys(r.heap, r.hm)
            /\ \A new_capacity \in 1..MaxCap :
                   UniqueKeys(rehash(heap, tbl[t], new_capacity).heap,
                              rehash(heap, tbl[t], new_capacity).hm)
            /\ \A k \in Keys :
                   UniqueKeys(erase(heap, tbl[t], k).heap,
                              erase(heap, tbl[t], k).hm)

\* Two tables that hold the same two keys in chains of two nodes, and the
\* insert of a key that is the tail of its chain, with another value.
C14_Witness ==
    /\ Constructed(1) /\ Constructed(2)
    /\ \A t \in Tables : Len(Chain(heap, tbl[t].data[0])) = 2
    /\ \E k \in Keys, v \in Vals :
           /\ InAbs(1, k)
           /\ abs[1][k] # v
           /\ tbl[1].data[0] # atRef(heap, tbl[1], k)
           /\ \A r \in insertOutcomes(heap, tbl[1], k, v) :
                  Nodes(r.heap, r.hm) = Nodes(heap, tbl[1])

\* C15 as stated: across any sequence of operations on one table the
\* capacity never decreases, and each rehash sets it to exactly twice its
\* previous value.
C15_CapacityNeverDecreases ==
    [][\A t \in Tables :
           (Constructed(t) /\ tbl'[t].capacity > 0) =>
               /\ tbl'[t].capacity >= tbl[t].capacity
               /\ (\E new_capacity \in 1..MaxCopyCap :
                       CallRehash(t, new_capacity))
                      => tbl'[t].capacity = 2 * tbl[t].capacity]_vars

\* C15: what each operation does to the capacity.  erase, clear, begin,
\* next, a traversal and a write through at never change it; insert leaves
\* it or, when it rehashes, sets it to exactly twice its value, so it never
\* decreases under these; a direct rehash(new_capacity) sets it to
\* new_capacity and an assignment sets it to the capacity of the source,
\* and either of the two may decrease it.
C15_CapacityChanges ==
    \A t \in Tables :
        Constructed(t) =>
            /\ \A k \in Keys : erase(heap, tbl[t], k).hm.capacity
                                   = tbl[t].capacity
            /\ clear(heap, tbl[t]).hm.capacity = tbl[t].capacity
            /\ begin(tbl[t]).capacity = tbl[t].capacity
            /\ \A r \in nextOutcomes(heap, tbl[t]) :
                   r.crash \/ r.hm.capacity = tbl[t].capacity
            /\ traverse(heap, tbl[t]).hm.capacity = tbl[t].capacity
            /\ \A k \in Keys, v \in Vals :
                   CanInsert(heap, tbl[t], k) =>
                       \A r \in insertOutcomes(heap, tbl[t], k, v) :
                           \/ r.hm.capacity = tbl[t].capacity
                           \/ /\ r.hm.capacity = 2 * tbl[t].capacity
                              /\ r.hm.data # tbl[t].data
            /\ \A new_capacity \in 1..MaxCap :
                   rehash(heap, tbl[t], new_capacity).hm.capacity
                       = new_capacity
            /\ \A other \in Tables :
                   CanAssign(heap, tbl, t, other) =>
                       \A r \in operator_assignOutcomes(heap, tbl, t, other) :
                           r.tbl[t].capacity = tbl[other].capacity

\* A two-bucket table of two keys beside a one-bucket table: rehash(1)
\* and the assignment of the one-bucket table both bring its capacity from
\* 2 to 1, the insert of a third key into the one bucket doubles the
\* capacity to 2, and erase and clear leave it at 2.
C15_Witness ==
    \E t \in Tables, other \in Tables :
        /\ tbl[t].capacity = 2
        /\ tbl[t].sz = 2
        /\ tbl[other].capacity = 1
        /\ CanAssign(heap, tbl, t, other)
        /\ \E r \in operator_assignOutcomes(heap, tbl, t, other) :
               r.tbl[t].capacity = 1
        /\ LET one == rehash(heap, tbl[t], 1)
           IN  /\ one.hm.capacity = 1
               /\ \E k \in Keys, v \in Vals :
                      /\ ~InAbs(t, k)
                      /\ CanInsert(one.heap, one.hm, k)
                      /\ \E r \in insertOutcomes(one.heap, one.hm, k, v) :
                             /\ r.hm.capacity = 2
                             /\ r.hm.sz = 3
        /\ \E k \in Keys : /\ InAbs(t, k)
                           /\ erase(heap, tbl[t], k).hm.capacity = 2
        /\ clear(heap, tbl[t]).hm.capacity = 2

\* =================================================================
\* Claims on nodes and values, single table (Spec)
\* =================================================================
\* The nodes that were created with new and not yet deleted.
Allocated(h) == {n \in NodeIds : ~IsFree(h, n)}

\* Key and value of the nodes in ns are the same in heaps h1 and h2.
SamePairs(h1, h2, ns) ==
    \A n \in ns : /\ h2[n].key = h1[n].key
                  /\ h2[n].value = h1[n].value

\* Every allocated node is reached from exactly one bucket head, once.
EachNodeInOneBucket(h, hm) ==
    /\ NodeSet(h, hm) = Allocated(h)
    /\ Len(Nodes(h, hm)) = Cardinality(Allocated(h))

\* C16: node conservation.  Every live node is reachable from exactly one
\* bucket head.  A rehash creates and releases no node: the same nodes hold
\* the same keys and values before and after.  An insert of a new key
\* creates exactly one node, the one new returns, also when it triggers a
\* rehash, and leaves the other nodes' keys and values alone.  An erase of
\* a present key releases exactly the node that holds it and creates none.
C16_NodeConservation ==
    Constructed(1) =>
        LET live == Allocated(heap)
        IN  /\ EachNodeInOneBucket(heap, tbl[1])
            /\ \A new_capacity \in 1..MaxCap :
                   LET r == rehash(heap, tbl[1], new_capacity)
                   IN  /\ Allocated(r.heap) = live
                       /\ SamePairs(heap, r.heap, live)
                       /\ EachNodeInOneBucket(r.heap, r.hm)
            /\ \A k \in Keys, v \in Vals :
                   ~InAbs(1, k) =>
                       \A new_node \in Alloc(heap) :
                           LET r == insert(heap, tbl[1], k, v, new_node)
                           IN  /\ r \in insertOutcomes(heap, tbl[1], k, v)
                               /\ Allocated(r.heap) = live \cup {new_node}
                               /\ r.heap[new_node].key = k
                               /\ r.heap[new_node].value = v
                               /\ SamePairs(heap, r.heap, live)
                               /\ EachNodeInOneBucket(r.heap, r.hm)
            /\ \A k \in Keys :
                   InAbs(1, k) =>
                       LET r == erase(heap, tbl[1], k)
                           matched == atRef(heap, tbl[1], k)
                       IN  /\ Allocated(r.heap) = live \ {matched}
                           /\ SamePairs(heap, r.heap, live \ {matched})
                           /\ EachNodeInOneBucket(r.heap, r.hm)

\* Two nodes in the one chain of a one-bucket table, at addresses that
\* leave a lower address free: the insert of a third key allocates one
\* node, at either free address, and rehashes to two buckets, a direct
\* rehash to two buckets changes links and heads and no node, and the
\* erase of the chain's tail releases that node alone.
C16_Witness ==
    /\ Constructed(1)
    /\ tbl[1].capacity = 1
    /\ tbl[1].sz = 2
    /\ Cardinality(Allocated(heap)) = 2
    /\ \E n \in Alloc(heap), m \in Allocated(heap) : n < m
    /\ \E k \in Keys, v \in Vals :
           /\ ~InAbs(1, k)
           /\ Cardinality(insertOutcomes(heap, tbl[1], k, v)) = 2
           /\ \A r \in insertOutcomes(heap, tbl[1], k, v) :
                  /\ r.hm.capacity = 2
                  /\ Cardinality(Allocated(r.heap)) = 3
                  /\ Allocated(heap) \subseteq Allocated(r.heap)
    /\ LET r == rehash(heap, tbl[1], 2)
       IN  /\ r.heap # heap
           /\ r.hm.data # tbl[1].data
           /\ Allocated(r.heap) = Allocated(heap)
    /\ \E k \in Keys :
           /\ erase(heap, tbl[1], k).pos = "tail"
           /\ Allocated(erase(heap, tbl[1], k).heap)
                  = Allocated(heap) \ {atRef(heap, tbl[1], k)}

\* C17: a write of v through the reference at(k) returns, for a present
\* key k, is seen by a later at(k), by the pair a traversal yields for k
\* and by the return value of erase(k).  It changes the value field of
\* k's node and nothing else: size, capacity and buckets are untouched,
\* every other node, link, key and value is as before, and a rehash after
\* it carries the new value along.
C17_WriteThroughAt ==
    \A k \in Keys, v \in Vals :
        (Constructed(1) /\ InAbs(1, k)) =>
            LET h2 == atWrite(heap, tbl[1], k, v)
                node == CHOOSE n \in NodeSet(heap, tbl[1]) : heap[n].key = k
            IN  /\ at(h2, tbl[1], k) = v
                /\ erase(h2, tbl[1], k).ret = v
                /\ Range(traverse(h2, tbl[1]).pairs)
                       = (AbsPairs(1) \ {<<k, abs[1][k]>>}) \cup {<<k, v>>}
                /\ Len(traverse(h2, tbl[1]).pairs) = tbl[1].sz
                /\ \A j \in Keys \ {k} :
                       at(h2, tbl[1], j) = at(heap, tbl[1], j)
                /\ Nodes(h2, tbl[1]) = Nodes(heap, tbl[1])
                /\ h2 = [heap EXCEPT ![node].value = v]
                /\ \A new_capacity \in 1..MaxCap :
                       LET r == rehash(h2, tbl[1], new_capacity)
                       IN  /\ Lookup(r.heap, r.hm)
                                  = [AbsLookup(1) EXCEPT ![k] = v]
                           /\ r.hm.sz = tbl[1].sz

\* Three keys, k behind the head of its chain and mapped to a value other
\* than v: after the write at(k) and erase(k) give v, and so does at(k)
\* after a rehash to two buckets.
C17_Witness ==
    \E k \in Keys, v \in Vals :
        /\ Constructed(1)
        /\ InAbs(1, k)
        /\ abs[1][k] # v
        /\ tbl[1].sz = 3
        /\ tbl[1].capacity = 1
        /\ tbl[1].data[0] # atRef(heap, tbl[1], k)
        /\ LET h2 == atWrite(heap, tbl[1], k, v)
               r == rehash(h2, tbl[1], 2)
           IN  /\ at(h2, tbl[1], k) = v
               /\ erase(h2, tbl[1], k).ret = v
               /\ at(r.heap, r.hm, k) = v
               /\ r.hm.data[1] # nullptr

\* The <<key, value>> pairs of the chain that starts at current, in order.
ChainPairs(h, current) ==
    LET c == Chain(h, current)
    IN  [j \in 1..Len(c) |-> <<h[c[j]].key, h[c[j]].value>>]

\* For every bucket, the pairs of its chain in order.
BucketPairs(h, hm) ==
    [i \in 0..(hm.capacity - 1) |-> ChainPairs(h, hm.data[i])]

Reverse(seq) == [j \in 1..Len(seq) |-> seq[Len(seq) + 1 - j]]

\* C20: a copy keeps the chain order.  After copy construction and after
\* assignment, whichever addresses the new nodes get, the copy holds in
\* every bucket the pairs of the source's bucket in the same order, and a
\* traversal of the copy yields the pairs in the order a traversal of the
\* source yields them.  A rehash links every node at the head of its new
\* chain: a rehash to the same capacity reverses every chain, so it changes
\* the traversal order of a table that has a chain of two nodes.
C20_CopyKeepsChainOrder ==
    \A this \in Tables, other \in Tables :
        /\ CanCopyConstruct(heap, tbl, this, other) =>
               \A r \in copy_constructOutcomes(heap, tbl, this, other) :
                   /\ BucketPairs(r.heap, r.tbl[this])
                          = BucketPairs(heap, tbl[other])
                   /\ traverse(r.heap, r.tbl[this]).pairs
                          = traverse(heap, tbl[other]).pairs
        /\ CanAssign(heap, tbl, this, other) =>
               \A r \in operator_assignOutcomes(heap, tbl, this, other) :
                   /\ BucketPairs(r.heap, r.tbl[this])
                          = BucketPairs(heap, tbl[other])
                   /\ traverse(r.heap, r.tbl[this]).pairs
                          = traverse(heap, tbl[other]).pairs
        /\ Constructed(other) =>
               LET r == rehash(heap, tbl[other], tbl[other].capacity)
               IN  \A i \in 0..(tbl[other].capacity - 1) :
                       ChainPairs(r.heap, r.hm.data[i])
                           = Reverse(ChainPairs(heap, tbl[other].data[i]))

\* A source with a chain of two nodes and a second table that holds other
\* pairs: the assignment gives the second table the source's traversal
\* order, and a rehash of the source to its own capacity yields the two
\* pairs in the opposite order.
C20_Witness ==
    \E this \in Tables, other \in Tables :
        /\ this # other
        /\ CanAssign(heap, tbl, this, other)
        /\ tbl[other].sz = 2
        /\ Len(Chain(heap, tbl[other].data[0])) = 2
        /\ AbsLookup(this) # AbsLookup(other)
        /\ LET g == rehash(heap, tbl[other], tbl[other].capacity)
           IN  /\ \E r \in operator_assignOutcomes(heap, tbl, this, other) :
                      traverse(r.heap, r.tbl[this]).pairs
                          = traverse(heap, tbl[other]).pairs
               /\ traverse(g.heap, g.hm).pairs
                      # traverse(heap, tbl[other]).pairs
               /\ Range(traverse(g.heap, g.hm).pairs)
                      = Range(traverse(heap, tbl[other]).pairs)

\* =================================================================
\* Claims, two tables without direct rehash (SpecGrow)
\* =================================================================

\* C19: load-factor bound.  Without direct calls of rehash, in every state
\* reached from a constructor with capacity > 0 through insert, erase,
\* clear, copy construction and assignment, size <= 1.5 * capacity for
\* every table, and every insert, copy construction and assignment leaves
\* it so.
C19_LoadFactorBound ==
    \A t \in Tables :
        /\ Constructed(t) =>
               /\ 2 * tbl[t].sz <= 3 * tbl[t].capacity
               /\ \A k \in Keys, v \in Vals :
                      CanInsert(heap, tbl[t], k) =>
                          \A r \in insertOutcomes(heap, tbl[t], k, v) :
                              2 * r.hm.sz <= 3 * r.hm.capacity
        /\ \A other \in Tables :
               CanCopyConstruct(heap, tbl, t, other) =>
                   \A r \in copy_constructOutcomes(heap, tbl, t, other) :
                       2 * r.tbl[t].sz <= 3 * r.tbl[t].capacity

\* A table grown by insert from one bucket to two that holds three keys,
\* a load factor of exactly 1.5, beside a one-bucket table of one key.
C19_Witness ==
    \E t \in Tables, u \in Tables :
        /\ tbl[t].capacity = 2
        /\ tbl[t].sz = 3
        /\ 2 * tbl[t].sz = 3 * tbl[t].capacity
        /\ tbl[u].capacity = 1
        /\ tbl[u].sz = 1

====
